---- MODULE Spec2Model ----
(***************************************************************************)
(* A model of src/cashtime.py: the CashtimeAPI client (construction,       *)
(* header building, create_pix_payment, check_payment_status) and the      *)
(* factory create_cashtime_api, together with the provider and the         *)
(* transport they talk to.                                                 *)
(*                                                                         *)
(* Python values are tagged records ([t |-> "none"], [t |-> "str", ...],   *)
(* [t |-> "num", ...], [t |-> "dict", ...]); a dict is a function from its *)
(* keys, so a key that is absent is a key outside its DOMAIN.  Python      *)
(* floats are IEEE-754 binary64 values, held as a sign, a 53-bit           *)
(* significand (a sequence of bits, most significant first) and the        *)
(* exponent of the last bit.                                               *)
(***************************************************************************)
EXTENDS Integers, Sequences, FiniteSets, TLC

(***************************************************************************)
(* Bounds of the model.                                                    *)
(***************************************************************************)
\* the clock runs from 0 to MaxTime (seconds)
MaxTime == 1
\* os.urandom(4) is drawn from 0 .. MaxRnd
MaxRnd == 1

(***************************************************************************)
(* Program constants.                                                      *)
(***************************************************************************)
\* amount_cents = int(float(amount) * 100); total / 100
CentsPerUnit == 100
\* data.get('expirationMinutes', 60)
DefaultExpirationMinutes == 60
\* timeout=30
Timeout == 30
\* the significand of a Python float (binary64) has 53 bits
MantissaBits == 53
\* an amount of the model is a decimal with three places: n / 1000
Milli == 10 * CentsPerUnit

(***************************************************************************)
(* Binary64 arithmetic, on bit sequences (TLC's integers have 32 bits).    *)
(* Every operand of the model is below 2^30 in magnitude and every         *)
(* denominator is at most Milli.                                           *)
(***************************************************************************)
\* the number of binary digits of n, 0 <= n < 2^30
BitLen(n) ==
    CHOOSE l \in 0..30 : n < 2^l /\ (l = 0 \/ n >= 2^(l - 1))

\* the binary digits of n >= 0, most significant first (<<>> for 0)
IntBits(n) ==
    [i \in 1..BitLen(n) |-> (n \div 2^(BitLen(n) - i)) % 2]

\* the number eight bits from position i of bs denote
Byte(bs, i) ==
    bs[i] * 128 + bs[i + 1] * 64 + bs[i + 2] * 32 + bs[i + 3] * 16
      + bs[i + 4] * 8 + bs[i + 5] * 4 + bs[i + 6] * 2 + bs[i + 7]

\* the eight bits of a byte
ByteBits(o) ==
    [i \in 1..8 |-> (o \div 2^(8 - i)) % 2]

\* bs with zeros in front, to n bits
PadLeft(bs, n) ==
    [i \in 1..(n - Len(bs)) |-> 0] \o bs

\* the number a bit sequence of at most 31 bits denotes
BitsToInt(bs) ==
    LET p == PadLeft(bs, 32)
    IN  ((Byte(p, 1) * 256 + Byte(p, 9)) * 256 + Byte(p, 17)) * 256 + Byte(p, 25)

\* 2^j mod den, for 0 <= j < 96
PowMod(j, den) ==
    LET p1 == 65536 % den
        p2 == (p1 * p1) % den
        p3 == (p2 * p1) % den
        p4 == (p3 * p1) % den
        p5 == (p4 * p1) % den
        hi == CASE j \div 16 = 0 -> 1 % den
                [] j \div 16 = 1 -> p1
                [] j \div 16 = 2 -> p2
                [] j \div 16 = 3 -> p3
                [] j \div 16 = 4 -> p4
                [] j \div 16 = 5 -> p5
    IN  (hi * (2^(j % 16) % den)) % den

\* digit i >= 1 of the binary fraction r / den (0 <= r < den)
FracBit(r, den, i) ==
    (2 * ((r * PowMod(i - 1, den)) % den)) \div den

\* what is left of r / den after its first k binary digits, times den * 2^k
FracRem(r, den, k) ==
    (r * PowMod(k, den)) % den

\* the number of zero digits that open the binary fraction r / den (0 < r < den)
LeadingZeros(r, den) ==
    CHOOSE z \in 0..BitLen(den) : 2^(z + 1) * r >= den /\ (z = 0 \/ 2^z * r < den)

\* bs + 1 for a bs that is not all ones
Increment(bs) ==
    LET p == CHOOSE q \in 1..Len(bs) : bs[q] = 0 /\ \A i \in (q + 1)..Len(bs) : bs[i] = 1
    IN  [i \in 1..Len(bs) |-> IF i < p THEN bs[i] ELSE IF i = p THEN 1 ELSE 0]

\* round-half-even of a significand: the kept bits, plus one when up
RoundBits(kept, e, up) ==
    IF ~up THEN [bits |-> kept, exp |-> e]
    ELSE IF \A i \in 1..Len(kept) : kept[i] = 1
         THEN [bits |-> [i \in 1..Len(kept) |-> IF i = 1 THEN 1 ELSE 0], exp |-> e + 1]
         ELSE [bits |-> Increment(kept), exp |-> e]

Zero == [sign |-> 1, bits |-> <<>>, exp |-> 0]

\* the binary64 value nearest to num / den (ties to even): what float() of a
\* decimal literal, and int / int, produce.  0 < den <= Milli.
RatToDouble(num, den) ==
    LET sgn == IF num < 0 THEN -1 ELSE 1
        mag == IF num < 0 THEN -num ELSE num
        ib  == IntBits(mag \div den)
        r0  == mag % den
        z   == IF ib = <<>> /\ r0 > 0 THEN LeadingZeros(r0, den) ELSE 0
        k   == MantissaBits - Len(ib)
        kept == ib \o [i \in 1..k |-> FracBit(r0, den, z + i)]
        rem == FracRem(r0, den, z + k)
        up  == \/ 2 * rem > den
               \/ 2 * rem = den /\ kept[Len(kept)] = 1
        rb  == RoundBits(kept, -(z + k), up)
    IN  IF mag = 0 THEN Zero
        ELSE [sign |-> sgn, bits |-> rb.bits, exp |-> rb.exp]

\* bs without the zeros in front
Strip(bs) ==
    IF \A i \in 1..Len(bs) : bs[i] = 0 THEN <<>>
    ELSE LET f == CHOOSE q \in 1..Len(bs) : bs[q] = 1 /\ \A i \in 1..(q - 1) : bs[i] = 0
         IN  SubSeq(bs, f, Len(bs))

\* bs * c exactly, as a bit sequence, for a 53-bit bs and 0 < c < 256:
\* byte by byte from the last, with the carry
MulSmall(bs, c) ==
    LET p  == PadLeft(bs, 56)
        t7 == Byte(p, 49) * c
        t6 == Byte(p, 41) * c + t7 \div 256
        t5 == Byte(p, 33) * c + t6 \div 256
        t4 == Byte(p, 25) * c + t5 \div 256
        t3 == Byte(p, 17) * c + t4 \div 256
        t2 == Byte(p, 9) * c + t3 \div 256
        t1 == Byte(p, 1) * c + t2 \div 256
    IN  Strip(ByteBits(t1 \div 256) \o ByteBits(t1 % 256) \o ByteBits(t2 % 256)
              \o ByteBits(t3 % 256) \o ByteBits(t4 % 256) \o ByteBits(t5 % 256)
              \o ByteBits(t6 % 256) \o ByteBits(t7 % 256))

\* a significand of any length rounded to 53 bits, ties to even
RoundTo53(bs, e) ==
    IF Len(bs) <= MantissaBits
    THEN [bits |-> bs \o [i \in 1..(MantissaBits - Len(bs)) |-> 0],
          exp |-> e - (MantissaBits - Len(bs))]
    ELSE LET kept   == SubSeq(bs, 1, MantissaBits)
             guard  == bs[MantissaBits + 1]
             sticky == \E i \in (MantissaBits + 2)..Len(bs) : bs[i] = 1
             up     == guard = 1 /\ (sticky \/ kept[MantissaBits] = 1)
         IN  RoundBits(kept, e + (Len(bs) - MantissaBits), up)

\* d * c for a float d and an integer 0 < c < 256: the exact product, rounded
\* to the nearest float
MulDouble(d, c) ==
    IF d.bits = <<>> THEN Zero
    ELSE LET p == RoundTo53(MulSmall(d.bits, c), d.exp)
         IN  [sign |-> d.sign, bits |-> p.bits, exp |-> p.exp]

\* int(d): the float's integer part, rounded toward zero (|d| < 2^31)
TruncDouble(d) ==
    IF d.bits = <<>> \/ MantissaBits + d.exp <= 0 THEN 0
    ELSE d.sign * BitsToInt(SubSeq(d.bits, 1, MantissaBits + d.exp))

(***************************************************************************)
(* Python values.                                                          *)
(***************************************************************************)
None_ == [t |-> "none"]
Str(s) == [t |-> "str", v |-> s]
\* a str held as its characters (the cpf, which the code edits)
Chars(cs) == [t |-> "chars", v |-> cs]
PyInt(n) == [t |-> "int", v |-> n]
\* a decimal number milli / 1000, as the caller writes it (a number or a
\* numeric string: float() takes both to the same value)
Dec(milli) == [t |-> "dec", v |-> milli]
Float(d) == [t |-> "float", v |-> d]
Dict(f) == [t |-> "dict", v |-> f]
List_ == [t |-> "list"]
\* a body that is no JSON document
Text == [t |-> "text"]
EmptyMap == [k \in {} |-> None_]

\* bool(v)
Truthy(v) ==
    CASE v.t = "none" -> FALSE
      [] v.t = "str" -> v.v # ""
      [] v.t = "chars" -> v.v # <<>>
      [] v.t = "int" -> v.v # 0
      [] v.t = "dec" -> v.v # 0
      [] v.t = "float" -> v.v.bits # <<>>
      [] v.t = "dict" -> DOMAIN v.v # {}
      [] OTHER -> TRUE

\* d.get(k, default) on the keys-to-values function of a dict
Get(f, k, default) == IF k \in DOMAIN f THEN f[k] ELSE default

\* an exception: its class and the pieces of its message, in order
Exc(type, msg) == [type |-> type, msg |-> msg]

\* whether a value is an exception
IsExc(v) == "type" \in DOMAIN v

\* the classes that derive from requests.exceptions.RequestException
RequestExceptions == {"ConnectionError", "Timeout", "RequestsJSONDecodeError"}

(***************************************************************************)
(* CashtimeAPI: pure parts.                                                *)
(***************************************************************************)
API_URL == "https://api.cashtime.com.br/v1"

\* CashtimeAPI.__init__
NewClient(secret_key, public_key) ==
    [t |-> "client", secret_key |-> secret_key, public_key |-> public_key]

\* _get_headers with the public key sent whether or not there is one
GetHeadersAlwaysStore(self) ==
    [h \in {"Content-Type", "x-authorization-key", "x-store-key"} |->
       IF h = "Content-Type" THEN Str("application/json")
       ELSE IF h = "x-authorization-key" THEN self.secret_key
       ELSE self.public_key]

\* CashtimeAPI._get_headers
GetHeaders(self) ==
    LET headers == [h \in {"Content-Type", "x-authorization-key"} |->
                      IF h = "Content-Type" THEN Str("application/json")
                      ELSE self.secret_key]
    IN  IF Truthy(self.public_key)
        THEN [h \in DOMAIN headers \cup {"x-store-key"} |->
                IF h = "x-store-key" THEN self.public_key ELSE headers[h]]
        ELSE headers

\* CashtimeAPI._generate_txid: the prefix, the time in whole seconds and
\* four random bytes
GenerateTxid(clock, rnd) ==
    [t |-> "txid", prefix |-> "CASHTIME", ts |-> clock, rnd |-> rnd]

required_fields == <<"amount", "description">>

\* the loop with only its first test: field not in data
MissingFieldsKeyOnly(data) ==
    SelectSeq(required_fields, LAMBDA f : f \notin DOMAIN data)

\* the required fields that are missing or falsy, in the order of the loop
MissingFields(data) ==
    SelectSeq(required_fields, LAMBDA f : f \notin DOMAIN data \/ ~Truthy(data[f]))

\* float(v): a float, or the exception the conversion raises
ToFloat(v) ==
    CASE v.t = "dec" -> Float(RatToDouble(v.v, Milli))
      [] v.t = "int" -> Float(RatToDouble(v.v, 1))
      [] v.t = "str" -> Exc("ValueError", <<"could not convert string to float: ", v.v>>)
      [] OTHER -> Exc("TypeError", <<"float() argument must be a string or a number">>)

\* amount_cents = int(float(data['amount']) * 100)
AmountCents(amount) ==
    LET f == ToFloat(amount)
    IN  IF IsExc(f) THEN f ELSE PyInt(TruncDouble(MulDouble(f.v, CentsPerUnit)))

\* datetime.now() + timedelta(minutes=expiration_minutes), in seconds
ExpiresAt(data, clock) ==
    LET m == Get(data, "expirationMinutes", PyInt(DefaultExpirationMinutes))
    IN  IF m.t = "int" THEN PyInt(clock + 60 * m.v)
        ELSE Exc("TypeError", <<"unsupported type for timedelta minutes component: ", m.t>>)

\* data.get('cpf', '').replace('.', '').replace('-', '')
DocumentNumber(data) ==
    LET c == Get(data, "cpf", Chars(<<>>))
    IN  IF c.t = "chars"
        THEN Chars(SelectSeq(c.v, LAMBDA ch : ch # "." /\ ch # "-"))
        ELSE Exc("AttributeError", <<"object has no attribute 'replace': ", c.t>>)

\* cashtime_payload
CashtimePayload(data, amount_cents) ==
    [paymentMethod |-> "pix",
     customer |-> [name |-> Get(data, "name", Str("Cliente")),
                   email |-> Get(data, "email", Str("cliente@dominio.com.br")),
                   phone |-> Get(data, "phone", Str("11999999999")),
                   document |-> [number |-> DocumentNumber(data), type |-> "cpf"]],
     items |-> << [title |-> "Regularização de Débitos",
                   description |-> data["description"],
                   unitPrice |-> amount_cents,
                   quantity |-> 1,
                   tangible |-> FALSE] >>,
     isInfoProducts |-> TRUE,
     installments |-> 1,
     installmentFee |-> 0,
     postbackUrl |-> "https://webhook.site/unique-uuid-4-testing",
     ip |-> "127.0.0.1",
     amount |-> amount_cents]

\* response.ok: requests reports a status of 400 to 599 as an error
Ok(status_code) == ~(400 <= status_code /\ status_code < 600)

\* the status mapping with the last branch's status code left out
HttpErrorNoCode(status_code) ==
    IF status_code = 403
    THEN Exc("Exception", <<"Erro de autenticação. Verifique sua secret key da Cashtime">>)
    ELSE IF status_code = 400
    THEN Exc("Exception", <<"Dados inválidos enviados para a API">>)
    ELSE Exc("Exception", <<"Erro na API Cashtime: ">>)

\* the exception create_pix_payment raises on a response that is not ok
HttpError(status_code) ==
    IF status_code = 403
    THEN Exc("Exception", <<"Erro de autenticação. Verifique sua secret key da Cashtime">>)
    ELSE IF status_code = 400
    THEN Exc("Exception", <<"Dados inválidos enviados para a API">>)
    ELSE Exc("Exception", <<"Erro na API Cashtime: ", status_code>>)

\* response.json(): the document, or the exception of a body that is none;
\* cls is the class the installed requests raises (a RequestException since
\* requests 2.27, a plain ValueError before)
Json(body, cls) ==
    IF body.t = "text" THEN Exc(cls, <<"Expecting value: line 1 column 1 (char 0)">>)
    ELSE body

\* v.get(k, default) on a Python value: only a dict has get
PyGet(v, k, default) ==
    IF v.t = "dict" THEN Get(v.v, k, default)
    ELSE Exc("AttributeError", <<"object has no attribute 'get': ", v.t>>)

\* pix_data[k] in place of pix_data.get(k, '')
PixFieldStrict(pix_data, k) ==
    IF pix_data.t = "dict"
    THEN IF k \in DOMAIN pix_data.v THEN pix_data.v[k] ELSE Exc("KeyError", <<k>>)
    ELSE Exc("TypeError", <<"object is not subscriptable: ", pix_data.t>>)

\* pix_data.get(k, ''): a field of the 'pix' object, '' when it is absent
PixField(pix_data, k) ==
    PyGet(pix_data, k, Str(""))

\* create_pix_payment with its second except clause alone
CreateHandlerSingle(e) ==
    Exc("Exception", <<"Erro ao processar pagamento: ">> \o e.msg)

\* the two except clauses of create_pix_payment
CreateHandler(e) ==
    IF e.type \in RequestExceptions
    THEN Exc("Exception", <<"Erro de conexão com a API: ">> \o e.msg)
    ELSE Exc("Exception", <<"Erro ao processar pagamento: ">> \o e.msg)

\* create_pix_payment from the response on: the value it returns, or the
\* exception raised inside its try block
CreateOutcome(data, txid, expires_at, clock, response, cls) ==
    IF response.t = "fail" THEN response.exc
    ELSE IF ~Ok(response.status_code) THEN HttpError(response.status_code)
    ELSE LET cashtime_result == Json(response.body, cls)
             pix_data == PyGet(cashtime_result, "pix", Dict(EmptyMap))
             pix_code == PixField(pix_data, "payload")
             qr_code_image == PixField(pix_data, "encodedImage")
         IN  IF IsExc(cashtime_result) THEN cashtime_result
             ELSE IF IsExc(pix_data) THEN pix_data
             ELSE IF IsExc(pix_code) THEN pix_code
             ELSE IF IsExc(qr_code_image) THEN qr_code_image
             ELSE [success |-> TRUE,
                   txid |-> txid,
                   cashtime_id |-> PyGet(cashtime_result, "id", Str("")),
                   amount |-> data["amount"],
                   currency |-> "BRL",
                   description |-> data["description"],
                   status |-> PyGet(cashtime_result, "status", Str("pending")),
                   pix_code |-> pix_code,
                   qr_code_image |-> qr_code_image,
                   expires_at |-> expires_at,
                   created_at |-> PyInt(clock),
                   payer |-> [name |-> Get(data, "name", None_),
                              cpf |-> Get(data, "cpf", None_),
                              email |-> Get(data, "email", None_)],
                   cashtime_response |-> cashtime_result]

\* total / 100
DivCents(total) ==
    CASE total.t = "int" -> Float(RatToDouble(total.v, CentsPerUnit))
      [] OTHER -> Exc("TypeError", <<"unsupported operand type(s) for /: ", total.t>>)

\* check_payment_status without its except clause: the exception leaves
StatusFailureReraise(e) == e

\* the result check_payment_status gives for an exception it caught
StatusFailure(e) == [success |-> FALSE, error |-> e.msg]

\* check_payment_status from the response on: the value it returns
StatusOutcome(txid, response, cls) ==
    IF response.t = "fail" THEN StatusFailure(response.exc)
    ELSE IF response.status_code = 404
    THEN [success |-> FALSE, error |-> <<"Transação não encontrada">>]
    ELSE IF ~Ok(response.status_code)
    THEN [success |-> FALSE, error |-> <<"Erro na API: ", response.status_code>>]
    ELSE LET result == Json(response.body, cls)
             orders == PyGet(result, "orders", Dict(EmptyMap))
             status == PyGet(orders, "status", Str("unknown"))
             total  == PyGet(orders, "total", None_)
             amount == IF Truthy(total) THEN DivCents(PyGet(orders, "total", PyInt(0)))
                       ELSE PyInt(0)
         IN  IF IsExc(result) THEN StatusFailure(result)
             ELSE IF IsExc(orders) THEN StatusFailure(orders)
             ELSE IF IsExc(status) THEN StatusFailure(status)
             ELSE IF IsExc(amount) THEN StatusFailure(amount)
             ELSE [success |-> TRUE,
                   txid |-> txid,
                   status |-> status,
                   amount |-> amount,
                   payment_method |-> PyGet(orders, "paymentMethod", None_),
                   created_at |-> PyGet(orders, "createdAt", None_),
                   updated_at |-> PyGet(orders, "updatedAt", None_),
                   cashtime_response |-> result]

\* create_cashtime_api without the test of the key it read from the environment
CreateCashtimeApiUnchecked(secret_key, public_key, env) ==
    NewClient(IF Truthy(secret_key) THEN secret_key
              ELSE Get(env, "CASHTIME_SECRET_KEY", None_),
              IF Truthy(public_key) THEN public_key
              ELSE Get(env, "CASHTIME_PUBLIC_KEY", None_))

\* create_cashtime_api: the client, or the exception it raises
CreateCashtimeApi(secret_key, public_key, env) ==
    LET secret == IF Truthy(secret_key) THEN secret_key
                  ELSE Get(env, "CASHTIME_SECRET_KEY", None_)
        public == IF Truthy(public_key) THEN public_key
                  ELSE Get(env, "CASHTIME_PUBLIC_KEY", None_)
    IN  IF ~Truthy(secret)
        THEN Exc("ValueError", <<"CASHTIME_SECRET_KEY não encontrada nas variáveis de ambiente">>)
        ELSE NewClient(secret, public)

(***************************************************************************)
(* The inputs the callers, the environment and the provider draw from.     *)
(***************************************************************************)
\* os.environ, as far as the factory reads it
Environs ==
    { EmptyMap,
      [k \in {"CASHTIME_SECRET_KEY"} |-> Str("")],
      [k \in {"CASHTIME_SECRET_KEY", "CASHTIME_PUBLIC_KEY"} |->
         IF k = "CASHTIME_SECRET_KEY" THEN Str("sk_env") ELSE Str("pk_env")] }

SecretArgs == {None_, Str(""), Str("sk_arg")}
PublicArgs == {None_, Str("pk_arg")}

BaseRequest ==
    [k \in {"amount", "description"} |->
       IF k = "amount" THEN Dec(19900) ELSE Str("Taxa")]

With(f, k, v) == [j \in DOMAIN f \cup {k} |-> IF j = k THEN v ELSE f[j]]
Without(f, k) == [j \in DOMAIN f \ {k} |-> f[j]]

\* the amounts of the requests, in thousandths: 19.90, 10.005, 1.00, 0.001,
\* -10.005, then zero and a string that is no number
Amounts ==
    {Dec(19900), Dec(10005), Dec(1000), Dec(1), Dec(-10005), Dec(0), Str("abc")}

\* the data of a create_pix_payment call
Requests ==
    { With(BaseRequest, "amount", a) : a \in Amounts }
    \cup { Without(BaseRequest, "amount"),
           Without(BaseRequest, "description"),
           With(BaseRequest, "description", Str("")),
           [k \in {} |-> None_],
           With(BaseRequest, "cpf", Chars(<<"1", "2", ".", "3", "-", "0", "9">>)),
           With(BaseRequest, "cpf", None_),
           With(BaseRequest, "expirationMinutes", PyInt(30)),
           With(BaseRequest, "expirationMinutes", Str("30")),
           With(With(BaseRequest, "name", Str("Ana")), "email", Str("ana@x.br")) }

\* the identifiers check_payment_status is called with
StatusArgs == {Str("c7a1"), Str(""), None_}

\* the status codes the provider answers with
StatusCodes == {200, 201, 304, 400, 403, 404, 500}

PixObjects ==
    { Dict(EmptyMap),
      Dict([k \in {"payload"} |-> Str("")]),
      Dict([k \in {"encodedImage"} |-> Str("iVBOR")]),
      Dict([k \in {"payload", "encodedImage"} |->
              IF k = "payload" THEN Str("000201") ELSE Str("iVBOR")]),
      Dict([k \in {"payload", "encodedImage"} |-> None_]) }

\* the bodies of the provider's answers to POST /transactions
CreateBodies ==
    { Text, List_, Dict(EmptyMap),
      Dict([k \in {"id", "status"} |-> IF k = "id" THEN Str("c7a1") ELSE Str("paid")]),
      Dict([k \in {"id", "pix"} |-> IF k = "id" THEN Str("c7a1") ELSE None_]) }
    \cup { Dict([k \in {"id", "pix"} |-> IF k = "id" THEN Str("c7a1") ELSE p]) :
             p \in PixObjects }

\* the totals the provider reports: none, null, zero, 1990, a string, and
\* the amount of the transaction it last accepted
Totals(stored) ==
    {None_, PyInt(0), PyInt(1990), Str("1990")}
    \cup (IF stored.t = "none" THEN {} ELSE {stored.cents})

\* the bodies of the provider's answers to GET /transactions/{txid}
StatusBodies(stored) ==
    { Text, List_, Dict(EmptyMap),
      Dict([k \in {"orders"} |-> None_]),
      Dict([k \in {"orders"} |-> Dict(EmptyMap)]),
      Dict([k \in {"orders"} |-> Dict([j \in {"status"} |-> Str("paid")])]) }
    \cup { Dict([k \in {"orders"} |->
                   Dict([j \in {"status", "total", "paymentMethod"} |->
                           IF j = "status" THEN Str("paid")
                           ELSE IF j = "total" THEN tot ELSE Str("pix")])]) :
             tot \in Totals(stored) }

\* the exceptions of the transport
TransportErrors ==
    { Exc("ConnectionError", <<"Connection refused">>),
      Exc("Timeout", <<"Read timed out. (read timeout=30)">>) }

\* the class response.json() raises on a body that is no JSON
JsonErrorClasses == {"RequestsJSONDecodeError", "ValueError"}

(***************************************************************************)
(* The state.                                                              *)
(***************************************************************************)
VARIABLES
    environ,     \* os.environ
    client,      \* the CashtimeAPI instance, None_ before construction
    ctor,        \* how the last construction was asked for, and how it ended
    now,         \* the clock, in seconds
    pc,          \* where the running call stands
    data,        \* the argument of the running call
    txid,        \* create_pix_payment's txid
    expires_at,  \* create_pix_payment's expires_at
    payload,     \* create_pix_payment's cashtime_payload
    wire,        \* the HTTP request the running call issued
    posts,       \* the number of HTTP requests the running call issued
    response,    \* what the transport gave back
    outcome,     \* how the call ended: a returned value or a raised exception
    stored       \* the provider's record of the transaction it last accepted

vars == <<environ, client, ctor, now, pc, data, txid, expires_at, payload, wire,
          posts, response, outcome, stored>>

locals == <<data, txid, expires_at, payload, wire, posts, response, outcome>>

Init ==
    /\ environ \in Environs
    /\ client = None_
    /\ ctor = [via |-> "none"]
    /\ now = 0
    /\ pc = "start"
    /\ data = None_
    /\ txid = None_
    /\ expires_at = None_
    /\ payload = None_
    /\ wire = None_
    /\ posts = 0
    /\ response = None_
    /\ outcome = None_
    /\ stored = None_

\* a raise that leaves the call
Raise(op, e) ==
    /\ outcome' = [t |-> "raise", op |-> op, exc |-> e]
    /\ pc' = "done"

\* a return
Return(op, v) ==
    /\ outcome' = [t |-> "return", op |-> op, value |-> v]
    /\ pc' = "done"

(***************************************************************************)
(* Construction.                                                           *)
(***************************************************************************)
\* create_cashtime_api(secret_key, public_key)
Factory ==
    /\ pc = "start"
    /\ \E sk \in SecretArgs, pk \in PublicArgs :
         LET r == CreateCashtimeApi(sk, pk, environ)
         IN  /\ ctor' = [via |-> "factory", secret_key |-> sk, public_key |-> pk,
                         raised |-> IsExc(r)]
             /\ client' = IF IsExc(r) THEN None_ ELSE r
             /\ pc' = IF IsExc(r) THEN "start" ELSE "idle"
    /\ UNCHANGED <<environ, now, stored>>
    /\ UNCHANGED locals

\* CashtimeAPI(secret_key, public_key), called directly
Direct ==
    /\ pc = "start"
    /\ \E sk \in {Str(""), Str("sk_arg")}, pk \in PublicArgs :
         /\ ctor' = [via |-> "direct", secret_key |-> sk, public_key |-> pk,
                     raised |-> FALSE]
         /\ client' = NewClient(sk, pk)
    /\ pc' = "idle"
    /\ UNCHANGED <<environ, now, stored>>
    /\ UNCHANGED locals

(***************************************************************************)
(* create_pix_payment.                                                     *)
(***************************************************************************)
CallCreate ==
    /\ pc = "idle"
    /\ data' \in Requests
    /\ pc' = "validate"
    /\ UNCHANGED <<environ, client, ctor, now, txid, expires_at, payload, wire,
                   posts, response, outcome, stored>>

\* the loop over required_fields
Validate ==
    /\ pc = "validate"
    /\ IF MissingFields(data) # <<>>
       THEN Raise("create", CreateHandler(
                Exc("ValueError", <<"Campo obrigatório ausente: ", Head(MissingFields(data))>>)))
       ELSE pc' = "generate" /\ UNCHANGED outcome
    /\ UNCHANGED <<environ, client, ctor, now, data, txid, expires_at, payload,
                   wire, posts, response, stored>>

\* txid and expires_at
Generate ==
    /\ pc = "generate"
    /\ \E rnd \in 0..MaxRnd : txid' = GenerateTxid(now, rnd)
    /\ LET e == ExpiresAt(data, now)
       IN  IF IsExc(e)
           THEN Raise("create", CreateHandler(e)) /\ UNCHANGED expires_at
           ELSE expires_at' = e /\ pc' = "build" /\ UNCHANGED outcome
    /\ UNCHANGED <<environ, client, ctor, now, data, payload, wire, posts,
                   response, stored>>

\* amount_cents and cashtime_payload
Build ==
    /\ pc = "build"
    /\ LET amount_cents == AmountCents(data["amount"])
           number == DocumentNumber(data)
       IN  IF IsExc(amount_cents)
           THEN Raise("create", CreateHandler(amount_cents)) /\ UNCHANGED payload
           ELSE IF IsExc(number)
           THEN Raise("create", CreateHandler(number)) /\ UNCHANGED payload
           ELSE /\ payload' = CashtimePayload(data, amount_cents)
                /\ pc' = "post"
                /\ UNCHANGED outcome
    /\ UNCHANGED <<environ, client, ctor, now, data, txid, expires_at, wire,
                   posts, response, stored>>

\* requests.post(...)
Post ==
    /\ pc = "post"
    /\ wire' = [method |-> "POST",
                url |-> <<API_URL, "/transactions">>,
                headers |-> GetHeaders(client),
                json |-> payload,
                timeout |-> Timeout]
    /\ posts' = posts + 1
    /\ pc' = "await"
    /\ UNCHANGED <<environ, client, ctor, now, data, txid, expires_at, payload,
                   response, outcome, stored>>

\* the provider answers the POST; it keeps the transactions it accepts.  The
\* body of an error answer is only logged, so one stands for all.
AnswerPost ==
    /\ pc = "await"
    /\ \E code \in StatusCodes :
         /\ \E body \in IF Ok(code) THEN CreateBodies ELSE {Text} :
              response' = [t |-> "resp", status_code |-> code, body |-> body]
         /\ stored' = IF code \in {200, 201}
                      THEN [t |-> "tx", cents |-> wire.json.amount, amount |-> data["amount"]]
                      ELSE stored
    /\ pc' = "map"
    /\ UNCHANGED <<environ, client, ctor, now, data, txid, expires_at, payload,
                   wire, posts, outcome>>

\* a transport failure that sends the request again
FailPostRetry ==
    /\ pc = "await"
    /\ pc' = "post"
    /\ UNCHANGED <<environ, client, ctor, now, data, txid, expires_at, payload,
                   wire, posts, response, outcome, stored>>

\* the transport fails: requests.post raises
FailPost ==
    /\ pc = "await"
    /\ \E e \in TransportErrors : response' = [t |-> "fail", exc |-> e]
    /\ pc' = "map"
    /\ UNCHANGED <<environ, client, ctor, now, data, txid, expires_at, payload,
                   wire, posts, outcome, stored>>

\* from the response to the end of create_pix_payment
MapCreate ==
    /\ pc = "map"
    /\ \E cls \in JsonErrorClasses :
         LET r == CreateOutcome(data, txid, expires_at, now, response, cls)
         IN  IF IsExc(r) THEN Raise("create", CreateHandler(r))
             ELSE Return("create", r)
    /\ UNCHANGED <<environ, client, ctor, now, data, txid, expires_at, payload,
                   wire, posts, response, stored>>

(***************************************************************************)
(* check_payment_status.                                                   *)
(***************************************************************************)
CallStatus ==
    /\ pc = "idle"
    /\ data' \in StatusArgs
    /\ pc' = "s_get"
    /\ UNCHANGED <<environ, client, ctor, now, txid, expires_at, payload, wire,
                   posts, response, outcome, stored>>

\* requests.get(...)
GetStatus ==
    /\ pc = "s_get"
    /\ wire' = [method |-> "GET",
                url |-> <<API_URL, "/transactions/", data>>,
                headers |-> GetHeaders(client),
                timeout |-> Timeout]
    /\ posts' = posts + 1
    /\ pc' = "s_await"
    /\ UNCHANGED <<environ, client, ctor, now, data, txid, expires_at, payload,
                   response, outcome, stored>>

\* the provider answers the GET
AnswerGet ==
    /\ pc = "s_await"
    /\ \E code \in StatusCodes :
         \E body \in IF Ok(code) THEN StatusBodies(stored) ELSE {Text} :
           response' = [t |-> "resp", status_code |-> code, body |-> body]
    /\ pc' = "s_map"
    /\ UNCHANGED <<environ, client, ctor, now, data, txid, expires_at, payload,
                   wire, posts, outcome, stored>>

\* the transport fails: requests.get raises
FailGet ==
    /\ pc = "s_await"
    /\ \E e \in TransportErrors : response' = [t |-> "fail", exc |-> e]
    /\ pc' = "s_map"
    /\ UNCHANGED <<environ, client, ctor, now, data, txid, expires_at, payload,
                   wire, posts, outcome, stored>>

\* from the response to the end of check_payment_status
MapStatus ==
    /\ pc = "s_map"
    /\ \E cls \in JsonErrorClasses :
         Return("status", StatusOutcome(data, response, cls))
    /\ UNCHANGED <<environ, client, ctor, now, data, txid, expires_at, payload,
                   wire, posts, response, stored>>

(***************************************************************************)
(* The caller and the clock.                                               *)
(***************************************************************************)
\* the caller has the outcome; the call's frame is gone
Finish ==
    /\ pc = "done"
    /\ pc' = "idle"
    /\ data' = None_
    /\ txid' = None_
    /\ expires_at' = None_
    /\ payload' = None_
    /\ wire' = None_
    /\ posts' = 0
    /\ response' = None_
    /\ outcome' = None_
    /\ UNCHANGED <<environ, client, ctor, now, stored>>

\* a second passes
Tick ==
    /\ now < MaxTime
    /\ now' = now + 1
    /\ UNCHANGED <<environ, client, ctor, pc, stored>>
    /\ UNCHANGED locals

Next ==
    \/ Factory
    \/ Direct
    \/ CallCreate
    \/ Validate
    \/ Generate
    \/ Build
    \/ Post
    \/ AnswerPost
    \/ FailPost
    \/ MapCreate
    \/ CallStatus
    \/ GetStatus
    \/ AnswerGet
    \/ FailGet
    \/ MapStatus
    \/ Finish
    \/ Tick

Spec == Init /\ [][Next]_vars

(***************************************************************************)
(* Properties.                                                             *)
(***************************************************************************)
ProcessingPrefix == "Erro ao processar pagamento: "
ConnectionPrefix == "Erro de conexão com a API: "

\* the kind of a raised error, as a caller can tell it: every error leaves
\* create_pix_payment as a plain Exception, so the kind is in the message
KindOf(e) ==
    IF e.type # "Exception" THEN "Unwrapped"
    ELSE IF e.msg[1] = ConnectionPrefix THEN "ConnectionError"
    ELSE IF e.msg[1] # ProcessingPrefix \/ Len(e.msg) < 2 THEN "Unknown"
    ELSE IF e.msg[2] = "Campo obrigatório ausente: " THEN "ValidationError"
    ELSE IF e.msg[2] = "Erro de autenticação. Verifique sua secret key da Cashtime"
    THEN "AuthenticationError"
    ELSE IF e.msg[2] = "Dados inválidos enviados para a API" THEN "ProviderValidationError"
    ELSE IF e.msg[2] = "Erro na API Cashtime: " THEN "APIError"
    ELSE "Unexpected"

Taxonomy ==
    {"ValidationError", "AuthenticationError", "ProviderValidationError", "APIError",
     "ConnectionError"}

CreateDone == pc = "done" /\ outcome.op = "create"
StatusDone == pc = "done" /\ outcome.op = "status"
InCreate == pc \in {"validate", "generate", "build", "post", "await", "map"} \/ CreateDone

\* a required field that is absent, or present with a falsy value
Lacks(d, f) == f \notin DOMAIN d \/ d[f] \in {None_, Str(""), Dec(0)}

\* the field the validation loop meets first among the lacking ones
FirstLacking(d) == IF Lacks(d, "amount") THEN "amount" ELSE "description"

\* C1: in create_pix_payment, a request that lacks 'amount' or 'description'
\* (key absent or value falsy) ends in a raised validation error whose
\* message names the lacking field, and no HTTP request is issued at any
\* point of the call.
C1_MissingFieldRaisesBeforeAnyRequest ==
    (InCreate /\ (Lacks(data, "amount") \/ Lacks(data, "description"))) =>
        /\ posts = 0
        /\ wire = None_
        /\ pc \in {"validate", "done"}
        /\ pc = "done" =>
             /\ outcome.t = "raise"
             /\ KindOf(outcome.exc) = "ValidationError"
             /\ outcome.exc.msg =
                  <<ProcessingPrefix, "Campo obrigatório ausente: ", FirstLacking(data)>>

\* a call that lacked only the description has raised, naming it
C1_Witness ==
    /\ CreateDone
    /\ ~Lacks(data, "amount")
    /\ Lacks(data, "description")
    /\ outcome.t = "raise"
    /\ outcome.exc.msg[3] = "description"
    /\ posts = 0

\* C2: check_payment_status never raises: whatever the identifier, the
\* status, the body and the transport do, it returns a result with a
\* 'success' flag; 404 gives the fixed not-found result, any other error
\* status (400 to 599) gives success = false with the status code in the
\* error, and any exception gives success = false with its message.
C2_StatusNeverRaises ==
    StatusDone =>
        /\ outcome.t = "return"
        /\ "success" \in DOMAIN outcome.value
        /\ (response.t = "fail") =>
             outcome.value = [success |-> FALSE, error |-> response.exc.msg]
        /\ (response.t = "resp" /\ response.status_code = 404) =>
             outcome.value = [success |-> FALSE, error |-> <<"Transação não encontrada">>]
        /\ (response.t = "resp" /\ response.status_code # 404
              /\ response.status_code >= 400 /\ response.status_code < 600) =>
             outcome.value =
               [success |-> FALSE, error |-> <<"Erro na API: ", response.status_code>>]
        /\ (response.t = "resp" /\ response.status_code < 400
              /\ (response.body.t # "dict"
                    \/ ("orders" \in DOMAIN response.body.v
                          /\ response.body.v["orders"].t # "dict"))) =>
             /\ outcome.value.success = FALSE
             /\ DOMAIN outcome.value = {"success", "error"}

\* a 404 was answered and the not-found result returned
C2_Witness ==
    /\ StatusDone
    /\ response.t = "resp"
    /\ response.status_code = 404
    /\ outcome.t = "return"
    /\ outcome.value.success = FALSE

\* C3, as stated: after the request is sent, 403 gives an authentication
\* error, 400 a provider-validation error, and every other status outside
\* 200..299 an API error that carries the status code.
C3_Original ==
    (CreateDone /\ response.t = "resp") =>
        /\ response.status_code = 403 =>
             outcome.t = "raise" /\ KindOf(outcome.exc) = "AuthenticationError"
        /\ response.status_code = 400 =>
             outcome.t = "raise" /\ KindOf(outcome.exc) = "ProviderValidationError"
        /\ (response.status_code \notin {400, 403}
              /\ (response.status_code < 200 \/ response.status_code > 299)) =>
             /\ outcome.t = "raise"
             /\ outcome.exc.msg =
                  <<ProcessingPrefix, "Erro na API Cashtime: ", response.status_code>>

\* C3, amended: 403 gives an authentication error, 400 a provider-validation
\* error, and every other status from 400 to 599 an API error that carries
\* the status code; the three differ in their messages.
C3_ErrorStatusMapping ==
    (CreateDone /\ response.t = "resp") =>
        /\ response.status_code = 403 =>
             /\ outcome.t = "raise"
             /\ KindOf(outcome.exc) = "AuthenticationError"
        /\ response.status_code = 400 =>
             /\ outcome.t = "raise"
             /\ KindOf(outcome.exc) = "ProviderValidationError"
        /\ (response.status_code \notin {400, 403}
              /\ response.status_code >= 400 /\ response.status_code < 600) =>
             /\ outcome.t = "raise"
             /\ KindOf(outcome.exc) = "APIError"
             /\ outcome.exc.msg =
                  <<ProcessingPrefix, "Erro na API Cashtime: ", response.status_code>>

\* a 500 was answered and the API error raised with the code
C3_Witness ==
    /\ CreateDone
    /\ response.t = "resp"
    /\ response.status_code = 500
    /\ outcome.t = "raise"
    /\ outcome.exc.msg[3] = 500

\* milli / 1000 * 100, rounded toward zero
TruncatedCents(milli) ==
    IF milli < 0 THEN -((-milli) \div 10) ELSE milli \div 10

\* C4: the amount A is sent as round_toward_zero(A x 100) minor units, the
\* same integer in the payload's 'amount' and in the line item's
\* 'unitPrice'; 19.90 is sent as 1990 and 10.005 as 1000.
C4_AmountInMinorUnits ==
    (InCreate /\ payload # None_) =>
        /\ payload.amount = PyInt(TruncatedCents(data["amount"].v))
        /\ payload.items[1].unitPrice = payload.amount

\* valid in the sense of the data model: amount > 0, description not empty
ValidRequest(d) ==
    /\ "amount" \in DOMAIN d
    /\ d["amount"].t = "dec"
    /\ d["amount"].v > 0
    /\ "description" \in DOMAIN d
    /\ d["description"].t = "str"
    /\ d["description"].v # ""

\* C5, as stated: a valid request ends in a returned result with
\* success = true and a non-empty txid, or in a raised error of one of the
\* five kinds of the taxonomy; a transport failure is a connection error.
C5_Original ==
    (CreateDone /\ ValidRequest(data)) =>
        /\ \/ /\ outcome.t = "return"
              /\ outcome.value.success = TRUE
              /\ outcome.value.txid.prefix # ""
           \/ /\ outcome.t = "raise"
              /\ KindOf(outcome.exc) \in Taxonomy
        /\ response.t = "fail" =>
             outcome.t = "raise" /\ KindOf(outcome.exc) = "ConnectionError"

\* C5, amended: a valid request ends in a returned result with
\* success = true and a non-empty txid, or in a raised Exception that is of
\* one of the five kinds or wraps an unexpected exception under the
\* processing prefix; a transport failure is a connection error, an error
\* status is not; no result with success = false is returned.
C5_ReturnsSuccessOrRaises ==
    (CreateDone /\ ValidRequest(data)) =>
        /\ \/ /\ outcome.t = "return"
              /\ outcome.value.success = TRUE
              /\ outcome.value.txid = txid
              /\ txid.t = "txid"
              /\ txid.prefix # ""
           \/ /\ outcome.t = "raise"
              /\ KindOf(outcome.exc) \in Taxonomy \cup {"Unexpected"}
        /\ response.t = "fail" =>
             /\ outcome.t = "raise"
             /\ outcome.exc = Exc("Exception", <<ConnectionPrefix>> \o response.exc.msg)
        /\ (response.t = "resp" /\ response.status_code >= 400) =>
             /\ outcome.t = "raise"
             /\ outcome.exc.msg[1] = ProcessingPrefix

\* the transport failed on a valid request and the connection error rose
C5_Witness ==
    /\ CreateDone
    /\ ValidRequest(data)
    /\ response.t = "fail"
    /\ outcome.t = "raise"
    /\ KindOf(outcome.exc) = "ConnectionError"

SecretInEnviron == Get(environ, "CASHTIME_SECRET_KEY", None_)
PublicInEnviron == Get(environ, "CASHTIME_PUBLIC_KEY", None_)

\* C6, as stated: every client instance holds a non-empty secret key, and
\* construction fails exactly when neither the argument nor the environment
\* gives one.
C6_Original ==
    /\ client # None_ => client.secret_key \notin {None_, Str("")}
    /\ ctor.via = "factory" =>
         (ctor.raised <=> (ctor.secret_key \in {None_, Str("")}
                             /\ SecretInEnviron \in {None_, Str("")}))

\* C6, amended: create_cashtime_api fails exactly when neither its argument
\* nor CASHTIME_SECRET_KEY gives a non-empty secret key, so every client it
\* returns holds one (the argument if given, else the variable); a missing
\* public key never makes it fail.  The constructor itself tests nothing.
C6_FactoryNeedsSecretKey ==
    ctor.via = "factory" =>
        /\ ctor.raised <=> (ctor.secret_key \in {None_, Str("")}
                              /\ SecretInEnviron \in {None_, Str("")})
        /\ ctor.raised => client = None_
        /\ ~ctor.raised =>
             /\ client # None_
             /\ client.secret_key \notin {None_, Str("")}
             /\ client.secret_key =
                  IF ctor.secret_key \in {None_, Str("")} THEN SecretInEnviron
                  ELSE ctor.secret_key

\* the factory was called with no key and an empty variable, and failed
C6_Witness ==
    /\ ctor.via = "factory"
    /\ ctor.raised
    /\ ctor.secret_key = None_
    /\ SecretInEnviron = Str("")
    /\ client = None_

\* a public key was configured: given to the constructor or the factory, or
\* read by the factory from CASHTIME_PUBLIC_KEY
PublicKeyConfigured ==
    \/ ctor.public_key \notin {None_, Str("")}
    \/ ctor.via = "factory" /\ PublicInEnviron \notin {None_, Str("")}

\* C7: the headers of every outbound call, POST and GET, hold the content
\* type and the secret key under 'x-authorization-key', and hold
\* 'x-store-key' exactly when a public key was configured; the client is as
\* it was constructed.
C7_Headers ==
    wire # None_ =>
        /\ wire.headers["Content-Type"] = Str("application/json")
        /\ wire.headers["x-authorization-key"] = client.secret_key
        /\ "x-store-key" \in DOMAIN wire.headers <=> PublicKeyConfigured
        /\ "x-store-key" \in DOMAIN wire.headers =>
             wire.headers["x-store-key"] = client.public_key
        /\ DOMAIN wire.headers \subseteq {"Content-Type", "x-authorization-key", "x-store-key"}
        /\ ctor.via = "direct" => client = NewClient(ctor.secret_key, ctor.public_key)

\* a GET went out without the public-key header, no public key being configured
C7_Witness ==
    /\ wire # None_
    /\ wire.method = "GET"
    /\ ~PublicKeyConfigured
    /\ DOMAIN wire.headers = {"Content-Type", "x-authorization-key"}

\* the response is a JSON object whose 'pix' is absent or an object
PixOptional(r) ==
    /\ r.t = "resp"
    /\ r.status_code < 400
    /\ r.body.t = "dict"
    /\ "pix" \in DOMAIN r.body.v => r.body.v["pix"].t = "dict"

PixOf(r) == IF "pix" \in DOMAIN r.body.v THEN r.body.v["pix"].v ELSE EmptyMap

\* C8: on a success status, create_pix_payment does not fail because the
\* 'pix' object or its 'payload' / 'encodedImage' are absent or empty: it
\* returns a result in which each absent field is the empty string, with
\* the provider's response embedded unchanged.
C8_OptionalPixFields ==
    (CreateDone /\ PixOptional(response)) =>
        /\ outcome.t = "return"
        /\ outcome.value.success = TRUE
        /\ outcome.value.pix_code =
             IF "payload" \in DOMAIN PixOf(response) THEN PixOf(response)["payload"]
             ELSE Str("")
        /\ outcome.value.qr_code_image =
             IF "encodedImage" \in DOMAIN PixOf(response) THEN PixOf(response)["encodedImage"]
             ELSE Str("")
        /\ outcome.value.cashtime_response = response.body

\* a success response without 'pix' was turned into a result
C8_Witness ==
    /\ CreateDone
    /\ PixOptional(response)
    /\ "pix" \notin DOMAIN response.body.v
    /\ outcome.t = "return"
    /\ outcome.value.pix_code = Str("")
    /\ outcome.value.qr_code_image = Str("")

\* the 'orders.total' of a success response to the GET, None_ when absent
TotalOf(r) ==
    IF /\ r.body.t = "dict"
       /\ "orders" \in DOMAIN r.body.v
       /\ r.body.v["orders"].t = "dict"
       /\ "total" \in DOMAIN r.body.v["orders"].v
    THEN r.body.v["orders"].v["total"]
    ELSE None_

\* C9: check_payment_status reports 'orders.total' / 100 (1990 as 19.90),
\* and 0 for a missing or zero total; and an amount in whole cents that
\* create_pix_payment sent and the provider echoes is reported as the amount
\* the caller gave.
C9_StatusAmountRoundTrip ==
    (StatusDone /\ outcome.value.success) =>
        /\ TotalOf(response) \in {None_, PyInt(0)} => outcome.value.amount = PyInt(0)
        /\ TotalOf(response) = PyInt(1990) =>
             outcome.value.amount = Float(RatToDouble(19900, 1000))
        /\ (/\ stored # None_
            /\ TotalOf(response) = stored.cents
            /\ stored.amount.t = "dec"
            /\ stored.amount.v > 0
            /\ stored.amount.v % 10 = 0) =>
             outcome.value.amount = Float(RatToDouble(stored.amount.v, 1000))

\* C10: a call issues at most one HTTP request, in the order validate,
\* generate, build, call, map, return; a failed call is reported once and
\* not sent again; the txid is in the returned result and not in the
\* payload.
C10_OneRequestNoRetry ==
    /\ posts <= 1
    /\ posts = 1 <=> wire # None_
    /\ pc \in {"validate", "generate"} => txid = None_ /\ payload = None_ /\ posts = 0
    /\ pc = "build" => txid # None_ /\ payload = None_ /\ posts = 0
    /\ pc = "post" => txid # None_ /\ payload # None_ /\ posts = 0
    /\ pc \in {"await", "s_await"} => posts = 1 /\ response = None_
    /\ pc = "s_get" => posts = 0
    /\ pc \in {"map", "s_map"} => posts = 1 /\ response # None_ /\ outcome = None_
    /\ response # None_ => posts = 1
    /\ (pc = "done" /\ response # None_ /\ response.t = "fail") =>
         /\ posts = 1
         /\ \/ outcome.t = "raise"
            \/ outcome.value.success = FALSE
    /\ (wire # None_ /\ wire.method = "POST") =>
         /\ DOMAIN wire.json =
              {"paymentMethod", "customer", "items", "isInfoProducts", "installments",
               "installmentFee", "postbackUrl", "ip", "amount"}
         /\ DOMAIN wire.json.customer = {"name", "email", "phone", "document"}
         /\ DOMAIN wire.json.items[1] =
              {"title", "description", "unitPrice", "quantity", "tangible"}
    /\ (CreateDone /\ outcome.t = "return") => outcome.value.txid = txid

\* the transport failed, the call ended, and one request had gone out
C10_Witness ==
    /\ CreateDone
    /\ response # None_
    /\ response.t = "fail"
    /\ posts = 1
    /\ outcome.t = "raise"

====
